---- MODULE Spec2Model ----
(***************************************************************************)
(* pandas/core/ops/methods.py: generation of the flex arithmetic and       *)
(* comparison methods and of the in-place special methods, and their       *)
(* pinning to the Series / DataFrame classes.                              *)
(*                                                                         *)
(* Names of methods are sequences of tokens in which every underscore is   *)
(* a token of its own ("__iadd__" is <<"_","_","i","add","_","_">>), so    *)
(* that str.strip("_") and the f-string of _wrap_inplace_method are        *)
(* computed, not assumed.                                                  *)
(***************************************************************************)
EXTENDS Integers, Sequences, FiniteSets, TLC

(* ---- bounds of the model ---------------------------------------------- *)
MaxLen == 2         \* longest axis of a container

\* The labels of an axis (in sorted order) and the values of the operands:
\* two of each give equal, disjoint, overlapping and duplicated axes.
Labels == {1, 2}
Values == {1, 2}
LastLabel == CHOOSE l \in Labels : \A m \in Labels : m <= l

(* ---- values ------------------------------------------------------------ *)
\* A value is a reduced fraction <<numerator, denominator>>; NaN is <<0, 0>>.
NaN == <<0, 0>>
IntV(n) == <<n, 1>>

RECURSIVE Gcd(_, _)
Gcd(a, b) == IF b = 0 THEN a ELSE Gcd(b, a % b)

Abs(n) == IF n < 0 THEN -n ELSE n

Frac(n, d) == LET g == Gcd(Abs(n), d) IN <<n \div g, d \div g>>

RECURSIVE IntPow(_, _)
IntPow(a, b) == IF b = 0 THEN 1 ELSE a * IntPow(a, b - 1)

RECURSIVE BitOp(_, _, _)
BitOp(o, a, b) ==
    IF a = 0 /\ b = 0 THEN 0
    ELSE LET x == a % 2
             y == b % 2
             bit == CASE o = "and" -> IF x = 1 /\ y = 1 THEN 1 ELSE 0
                      [] o = "or"  -> IF x = 1 \/ y = 1 THEN 1 ELSE 0
                      [] o = "xor" -> IF x # y THEN 1 ELSE 0
         IN bit + 2 * BitOp(o, a \div 2, b \div 2)

Bool(b) == IF b THEN IntV(1) ELSE IntV(0)

\* The primitives of the operator module on two scalars.
Canonical(o, a, b) ==
    IF a = NaN \/ b = NaN
    THEN (IF o \in {"eq", "lt", "gt", "le", "ge"} THEN Bool(FALSE)
          ELSE IF o = "ne" THEN Bool(TRUE) ELSE NaN)
    ELSE CASE o = "add" -> IntV(a[1] + b[1])
           [] o = "sub" -> IntV(a[1] - b[1])
           [] o = "mul" -> IntV(a[1] * b[1])
           [] o = "truediv" -> Frac(a[1], b[1])
           [] o = "floordiv" -> IntV(a[1] \div b[1])
           [] o = "mod" -> IntV(a[1] % b[1])
           [] o = "pow" -> IntV(IntPow(a[1], b[1]))
           [] o = "and" -> IntV(BitOp("and", a[1], b[1]))
           [] o = "or" -> IntV(BitOp("or", a[1], b[1]))
           [] o = "xor" -> IntV(BitOp("xor", a[1], b[1]))
           [] o = "eq" -> Bool(a = b)
           [] o = "ne" -> Bool(a # b)
           [] o = "lt" -> Bool(a[1] < b[1])
           [] o = "gt" -> Bool(a[1] > b[1])
           [] o = "le" -> Bool(a[1] <= b[1])
           [] o = "ge" -> Bool(a[1] >= b[1])

ReflectedOf ==
    [p \in {"radd", "rsub", "rmul", "rtruediv", "rfloordiv", "rmod", "rpow"} |->
        CASE p = "radd" -> "add" [] p = "rsub" -> "sub" [] p = "rmul" -> "mul"
          [] p = "rtruediv" -> "truediv" [] p = "rfloordiv" -> "floordiv"
          [] p = "rmod" -> "mod" [] p = "rpow" -> "pow"]

\* roperator: rX(left, right) is X(right, left).
Prim(p, a, b) ==
    IF p \in DOMAIN ReflectedOf THEN Canonical(ReflectedOf[p], b, a)
    ELSE Canonical(p, a, b)

(* ---- containers --------------------------------------------------------- *)
\* A container is a labelled axis and the values stored along it.  dtype
\* "object" marks an operand the arithmetic engines reject.
Indexes == UNION {[1..n -> Labels] : n \in 0..MaxLen}

Container(idx, vals) == [index |-> idx, values |-> vals, dtype |-> "num"]

Containers ==
    UNION {{Container(idx, vals) : vals \in [1..Len(idx) -> {IntV(v) : v \in Values}]}
           : idx \in Indexes}

Incompatible == [index |-> <<>>, values |-> <<>>, dtype |-> "object"]

Operands == Containers \cup {Incompatible}

HasDuplicates(idx) == \E i, j \in 1..Len(idx) : i < j /\ idx[i] = idx[j]

Pos(idx, l) == SelectSeq([i \in 1..Len(idx) |-> i], LAMBDA i : idx[i] = l)

\* The rows an outer join of the two axes has for label l: one per pair of
\* occurrences, a missing side being NaN.
JoinRows(x, y, l) ==
    LET px == Pos(x.index, l)
        py == Pos(y.index, l)
        m == IF px = <<>> THEN 1 ELSE Len(px)
        n == IF py = <<>> THEN 1 ELSE Len(py)
    IN IF px = <<>> /\ py = <<>> THEN <<>>
       ELSE [k \in 1..(m * n) |->
               <<l,
                 IF px = <<>> THEN NaN ELSE x.values[px[((k - 1) \div n) + 1]],
                 IF py = <<>> THEN NaN ELSE y.values[py[((k - 1) % n) + 1]]>>]

RECURSIVE JoinFrom(_, _, _)
JoinFrom(x, y, l) ==
    IF l > LastLabel THEN <<>> ELSE JoinRows(x, y, l) \o JoinFrom(x, y, l + 1)

\* The rows the operation is evaluated on: positional when the axes are
\* identical, the sorted outer join otherwise.
Align(x, y) ==
    IF x.index = y.index
    THEN [i \in 1..Len(x.index) |-> <<x.index[i], x.values[i], y.values[i]>>]
    ELSE JoinFrom(x, y, 1)

\* A non-mutating binary operation of a container type: (receiver, other) ->
\* new container, or the fault of the engine.
Raises(x, y) == y.dtype # x.dtype

Method(p, x, y) ==
    LET rows == Align(x, y)
    IN Container([i \in 1..Len(rows) |-> rows[i][1]],
                 [i \in 1..Len(rows) |-> Prim(p, rows[i][2], rows[i][3])])

\* result.reindex_like(like, copy=False)
ReindexRaises(r, like) == r.index # like.index /\ HasDuplicates(r.index)

ValueAt(r, l) ==
    IF Pos(r.index, l) = <<>> THEN NaN ELSE r.values[Pos(r.index, l)[1]]

reindex_like(r, like) ==
    IF r.index = like.index THEN r
    ELSE Container(like.index,
                   [i \in 1..Len(like.index) |-> ValueAt(r, like.index[i])])

(* ---- names -------------------------------------------------------------- *)
N(s) == <<s>>
Dunder(toks) == <<"_", "_">> \o toks \o <<"_", "_">>

RECURSIVE lstrip(_)
lstrip(k) == IF k # <<>> /\ Head(k) = "_" THEN lstrip(Tail(k)) ELSE k

RECURSIVE rstrip(_)
rstrip(k) ==
    IF k # <<>> /\ k[Len(k)] = "_" THEN rstrip(SubSeq(k, 1, Len(k) - 1)) ELSE k

\* str.strip("_") and str.strip("__"): the argument is a set of characters.
strip(k) == rstrip(lstrip(k))

(* ---- classes ------------------------------------------------------------ *)
\* "Other" is a class with the operators of OpsMixin that is neither a
\* Series nor a DataFrame.
Classes == {"Series", "DataFrame", "Other"}

IsABCSeries(cls) == cls = "Series"
IsABCDataFrame(cls) == cls = "DataFrame"

\* A callable: the factory that built it, the primitive it applies and its
\* name (for a flex method the keyword it was created under).
Callable(factory, prim, name) == [factory |-> factory, prim |-> prim, name |-> name]

SpecialOps == {"add", "sub", "mul", "truediv", "floordiv", "mod", "pow", "and", "or", "xor"}

\* The non-mutating special methods every class gets from OpsMixin.
OpsMixin ==
    [k \in {Dunder(N(o)) : o \in SpecialOps} |-> Callable("OpsMixin", k[3], k)]

None == "None"
Unbound == "unbound"

\* The locals start as None, as the docstring has it.
_get_method_wrappers_default(cls) ==
    LET arith_flex == IF IsABCSeries(cls) THEN "flex_method_SERIES"
                      ELSE IF IsABCDataFrame(cls) THEN "flex_arith_method_FRAME"
                      ELSE None
        comp_flex == IF IsABCSeries(cls) THEN "flex_method_SERIES"
                     ELSE IF IsABCDataFrame(cls) THEN "flex_comp_method_FRAME"
                     ELSE None
    IN [raised |-> "none", value |-> <<arith_flex, comp_flex>>]

_get_method_wrappers(cls) ==
    LET arith_flex == IF IsABCSeries(cls) THEN "flex_method_SERIES"
                      ELSE IF IsABCDataFrame(cls) THEN "flex_arith_method_FRAME"
                      ELSE Unbound
        comp_flex == IF IsABCSeries(cls) THEN "flex_method_SERIES"
                     ELSE IF IsABCDataFrame(cls) THEN "flex_comp_method_FRAME"
                     ELSE Unbound
    IN IF arith_flex = Unbound \/ comp_flex = Unbound
       THEN [raised |-> "UnboundLocalError", value |-> <<Unbound, Unbound>>]
       ELSE [raised |-> "none", value |-> <<arith_flex, comp_flex>>]

\* dict.update: the entries of d replace those of the dict.
update(new_methods, d) == d @@ new_methods

\* divmod offered to every class.
have_divmod_always(cls) == TRUE

have_divmod(cls) == IsABCSeries(cls)

\* rsub left out, rmod built on the canonical primitive.
ArithEntries_no_rsub ==
    {<<"add", "add">>, <<"radd", "radd">>, <<"sub", "sub">>, <<"mul", "mul">>,
     <<"truediv", "truediv">>, <<"floordiv", "floordiv">>, <<"mod", "mod">>,
     <<"pow", "pow">>, <<"rmul", "rmul">>,
     <<"rtruediv", "rtruediv">>, <<"rfloordiv", "rfloordiv">>,
     <<"rpow", "rpow">>, <<"rmod", "mod">>}

\* Lines 144-157: keyword = arith_method(primitive).
ArithEntries ==
    {<<"add", "add">>, <<"radd", "radd">>, <<"sub", "sub">>, <<"mul", "mul">>,
     <<"truediv", "truediv">>, <<"floordiv", "floordiv">>, <<"mod", "mod">>,
     <<"pow", "pow">>, <<"rmul", "rmul">>, <<"rsub", "rsub">>,
     <<"rtruediv", "rtruediv">>, <<"rfloordiv", "rfloordiv">>,
     <<"rpow", "rpow">>, <<"rmod", "rmod">>}

\* Lines 169-174: keyword = comp_method(primitive).
CompEntries ==
    {<<"eq", "eq">>, <<"ne", "ne">>, <<"lt", "lt">>, <<"gt", "gt">>,
     <<"le", "le">>, <<"ge", "ge">>}

\* The boolean reflected methods, under the keywords they have after the
\* operator module (or_, xor, and_).
BoolKeywords == {<<"ror", "_">>, <<"rxor">>, <<"rand", "_">>}

\* dict(keyword=factory(primitive), ...)
Dict(factory, entries) ==
    [k \in {N(e[1]) : e \in entries} |->
        Callable(factory, (CHOOSE e \in entries : e[1] = k[1])[2], k)]

\* The table of _create_methods before its keys are normalised.  reg is the
\* set of boolean keywords the table is built with: none in this module.
raw_methods(cls, arith_method, comp_method, reg) ==
    LET arith == Dict(arith_method, ArithEntries)
        bools == [k \in reg |-> Callable(arith_method, k[1], k)]
        divs == (N("div") :> arith[N("truediv")]) @@ (N("rdiv") :> arith[N("rtruediv")])
        dm == IF have_divmod(cls)
              THEN (N("divmod") :> Callable(arith_method, "divmod", N("divmod")))
                   @@ (N("rdivmod") :> Callable(arith_method, "rdivmod", N("rdivmod")))
              ELSE <<>>
        comp == Dict(comp_method, CompEntries)
    IN update(update(update(update(bools, arith), divs), dm), comp)

normalize(new_methods) ==
    [k \in {strip(j) : j \in DOMAIN new_methods} |->
        new_methods[CHOOSE j \in DOMAIN new_methods : strip(j) = k]]

\* divide bound to the floor division.
flex_aliases_divide_floordiv(new_methods) ==
    (N("multiply") :> new_methods[N("mul")])
    @@ (N("subtract") :> new_methods[N("sub")])
    @@ (N("divide") :> new_methods[N("floordiv")])

flex_aliases(new_methods) ==
    (N("multiply") :> new_methods[N("mul")])
    @@ (N("subtract") :> new_methods[N("sub")])
    @@ (N("divide") :> new_methods[N("div")])

OptOutNames == {<<"ror", "_">>, <<"rxor">>, <<"rand", "_">>}

opt_out_assert(new_methods) == ~ \E kname \in OptOutNames : kname \in DOMAIN new_methods

_wrap_inplace_method(method) ==
    LET name == strip(method.name)
    IN Callable("_wrap_inplace_method", method.prim, Dunder(<<"i">> \o name))

\* __isub__ wraps cls.__add__.
InplaceEntries_isub_add ==
    {<<"add", "add">>, <<"sub", "add">>, <<"mul", "mul">>,
     <<"truediv", "truediv">>, <<"floordiv", "floordiv">>, <<"mod", "mod">>,
     <<"pow", "pow">>, <<"and", "and">>, <<"or", "or">>, <<"xor", "xor">>}

\* Lines 88-101: __i<1>__ = _wrap_inplace_method(cls.__<2>__).
InplaceEntries ==
    {<<"add", "add">>, <<"sub", "sub">>, <<"mul", "mul">>,
     <<"truediv", "truediv">>, <<"floordiv", "floordiv">>, <<"mod", "mod">>,
     <<"pow", "pow">>, <<"and", "and">>, <<"or", "or">>, <<"xor", "xor">>}

inplace_methods(attrs_of_cls) ==
    [k \in {Dunder(<<"i", e[1]>>) : e \in InplaceEntries} |->
        _wrap_inplace_method(
            attrs_of_cls[Dunder(N((CHOOSE e \in InplaceEntries : e[1] = k[4])[2]))])]

\* _add_methods: setattr of every entry, replacing what is bound under the name.
_add_methods(attrs_of_cls, new_methods) == new_methods @@ attrs_of_cls

(* ---- the in-place wrapper f of _wrap_inplace_method ---------------------- *)
\* The cacher is reset before the operation is computed.
f_body_reset_first == <<"reset_cacher", "method", "reindex_like", "update_inplace", "return">>

\* The cacher is reset after the commit.
f_body_commit_first == <<"method", "reindex_like", "update_inplace", "reset_cacher", "return">>

\* The statements of f in the order they are executed; the argument of
\* _update_inplace is evaluated before the call.
f_body == <<"method", "reset_cacher", "reindex_like", "update_inplace", "return">>

\* The commit takes the result as computed, not realigned.
f_update_arg_unaligned(result_, self_) == result_

\* Line 76: the first argument of _update_inplace.
f_update_arg(result_, self_) == reindex_like(result_, self_.mgr)

\* Line 76: verify_is_copy=False.
f_verify_is_copy == FALSE

\* f returns the freshly computed result.
f_return_result == "result"

\* Line 79: return self.
f_return_value == "self"

\* NDFrame._reset_cacher
_reset_cacher(self_) == [self_ EXCEPT !.cacher = FALSE]

\* NDFrame._update_inplace: the receiver takes the storage of the result.
_update_inplace(self_, result_) == [self_ EXCEPT !.mgr = result_]

(* ---- state --------------------------------------------------------------- *)
VARIABLES
    registry,   \* boolean keywords _create_methods is built with
    attrs,      \* attrs[cls]: name -> callable, the attributes of the class
    done,       \* done[cls]: the add_* calls made for the class
    fault,      \* fault[cls]: what add_flex_arithmetic_methods(cls) raised
    wrappers,   \* wrappers[cls]: the pair _get_method_wrappers(cls) returned
    created,    \* created[cls]: the table _create_methods(cls, ...) returned
    pc,         \* 0: no call; i: f is about to execute f_body[i]; Len+1: returned
    f,          \* the in-place method being called
    self,       \* the receiver
    self0,      \* the receiver as it was when the call was made
    other,      \* the operand
    result,     \* local of f
    aligned,    \* the value of result.reindex_like(self, copy=False)
    ret,        \* the object f returned
    raised,     \* the exception that left f
    log,        \* the statements executed by the call, with the receiver each found
    checked     \* whether the commit made the is_copy check

vars == <<registry, attrs, done, fault, wrappers, created, pc, f, self, self0, other,
          result, aligned, ret, raised, log, checked>>

cfgvars == <<registry, attrs, done, fault, wrappers, created>>
callvars == <<pc, f, self, self0, other, result, aligned, ret, raised, log, checked>>

NoContainer == [index |-> <<>>, values |-> <<>>, dtype |-> "None"]
NoObject == [mgr |-> NoContainer, cacher |-> FALSE]
NoCallable == Callable(None, None, <<>>)

Returned == Len(f_body) + 1

_create_methods(cls, arith_method, comp_method) ==
    normalize(raw_methods(cls, arith_method, comp_method, registry))

InitCall ==
    /\ pc = 0
    /\ f = NoCallable
    /\ self = NoObject
    /\ self0 = NoObject
    /\ other = NoContainer
    /\ result = NoContainer
    /\ aligned = NoContainer
    /\ ret = None
    /\ raised = "none"
    /\ log = <<>>
    /\ checked = FALSE

InitClasses ==
    /\ attrs = [cls \in Classes |-> OpsMixin]
    /\ done = [cls \in Classes |-> {}]
    /\ fault = [cls \in Classes |-> "none"]
    /\ wrappers = [cls \in Classes |-> <<None, None>>]
    /\ created = [cls \in Classes |-> <<>>]

Init == registry = {} /\ InitClasses /\ InitCall

\* The Builder handed any of the boolean reflected keywords.
InitGuard == registry \in SUBSET BoolKeywords /\ InitClasses /\ InitCall

(* ---- class definition time ---------------------------------------------- *)
add_special_arithmetic_methods(cls) ==
    /\ pc = 0
    /\ "special" \notin done[cls]
    /\ attrs' = [attrs EXCEPT ![cls] = _add_methods(@, inplace_methods(@))]
    /\ done' = [done EXCEPT ![cls] = @ \cup {"special"}]
    /\ UNCHANGED <<registry, fault, wrappers, created>>
    /\ UNCHANGED callvars

add_flex_arithmetic_methods(cls) ==
    /\ pc = 0
    /\ "flex" \notin done[cls]
    /\ done' = [done EXCEPT ![cls] = @ \cup {"flex"}]
    /\ LET w == _get_method_wrappers(cls)
       IN IF w.raised # "none"
          THEN /\ fault' = [fault EXCEPT ![cls] = w.raised]
               /\ UNCHANGED <<attrs, wrappers, created>>
          ELSE LET table == _create_methods(cls, w.value[1], w.value[2])
                   new_methods == update(table, flex_aliases(table))
               IN /\ wrappers' = [wrappers EXCEPT ![cls] = w.value]
                  /\ created' = [created EXCEPT ![cls] = table]
                  /\ IF opt_out_assert(new_methods)
                     THEN /\ attrs' = [attrs EXCEPT ![cls] = _add_methods(@, new_methods)]
                          /\ UNCHANGED fault
                     ELSE /\ fault' = [fault EXCEPT ![cls] = "AssertionError"]
                          /\ UNCHANGED attrs
    /\ UNCHANGED registry
    /\ UNCHANGED callvars

(* ---- call time ----------------------------------------------------------- *)
\* Every class is defined before an instance exists.
Defined == \A cls \in Classes : done[cls] = {"flex", "special"}

\* x <op>= y on an instance x of cls: the in-place method bound under k is
\* called with receiver x (which may be a cached view of a parent) and
\* operand y.
inplace_call ==
    /\ pc = 0
    /\ Defined
    /\ \E cls \in {c \in Classes : fault[c] = "none"} :
       \E k \in {j \in DOMAIN attrs[cls] : attrs[cls][j].factory = "_wrap_inplace_method"} :
       \E x \in Containers, c \in BOOLEAN, y \in Operands :
          /\ f' = attrs[cls][k]
          /\ self' = [mgr |-> x, cacher |-> c]
          /\ self0' = [mgr |-> x, cacher |-> c]
          /\ other' = y
    /\ pc' = 1
    /\ result' = NoContainer
    /\ aligned' = NoContainer
    /\ ret' = None
    /\ raised' = "none"
    /\ log' = <<>>
    /\ checked' = FALSE
    /\ UNCHANGED cfgvars

At(stmt) == pc \in 1..Len(f_body) /\ raised = "none" /\ f_body[pc] = stmt

Logged(stmt) == Append(log, [step |-> stmt, mgr |-> self.mgr, cacher |-> self.cacher])

\* Line 70: result = method(self, other)
f_method ==
    /\ At("method")
    /\ log' = Logged("method")
    /\ IF Raises(self.mgr, other)
       THEN raised' = "TypeError" /\ UNCHANGED <<result, pc>>
       ELSE result' = Method(f.prim, self.mgr, other) /\ pc' = pc + 1 /\ UNCHANGED raised
    /\ UNCHANGED <<f, self, self0, other, aligned, ret, checked>>
    /\ UNCHANGED cfgvars

\* Line 72: self._reset_cacher()
f_reset_cacher ==
    /\ At("reset_cacher")
    /\ log' = Logged("reset_cacher")
    /\ self' = _reset_cacher(self)
    /\ pc' = pc + 1
    /\ UNCHANGED <<f, self0, other, result, aligned, ret, raised, checked>>
    /\ UNCHANGED cfgvars

\* Line 76: result.reindex_like(self, copy=False)
f_reindex_like ==
    /\ At("reindex_like")
    /\ log' = Logged("reindex_like")
    /\ IF ReindexRaises(result, self.mgr)
       THEN raised' = "ValueError" /\ UNCHANGED <<aligned, pc>>
       ELSE aligned' = f_update_arg(result, self) /\ pc' = pc + 1 /\ UNCHANGED raised
    /\ UNCHANGED <<f, self, self0, other, result, ret, checked>>
    /\ UNCHANGED cfgvars

\* Line 75: self._update_inplace(..., verify_is_copy=False)
f_update_inplace ==
    /\ At("update_inplace")
    /\ log' = Logged("update_inplace")
    /\ self' = _update_inplace(self, aligned)
    /\ checked' = f_verify_is_copy
    /\ pc' = pc + 1
    /\ UNCHANGED <<f, self0, other, result, aligned, ret, raised>>
    /\ UNCHANGED cfgvars

\* Line 79: return self
f_return ==
    /\ At("return")
    /\ log' = Logged("return")
    /\ ret' = f_return_value
    /\ pc' = Returned
    /\ UNCHANGED <<f, self, self0, other, result, aligned, raised, checked>>
    /\ UNCHANGED cfgvars

Next ==
    \/ \E cls \in Classes : add_special_arithmetic_methods(cls)
    \/ \E cls \in Classes : add_flex_arithmetic_methods(cls)
    \/ inplace_call
    \/ f_method
    \/ f_reset_cacher
    \/ f_reindex_like
    \/ f_update_inplace
    \/ f_return

Spec == Init /\ [][Next]_vars

SpecGuard == InitGuard /\ [][Next]_vars

(* ======================================================================== *)
(* Properties                                                               *)
(* ======================================================================== *)
FlexAttached(cls) == "flex" \in done[cls] /\ fault[cls] = "none"
Supported == {"Series", "DataFrame"}

\* The operation an in-place method is named after: "__i<X>__".
OpOf(fn) == fn.name[4]

\* What a flex method gives on (receiver, other).
FlexApply(fn, x, y) ==
    IF Raises(x, y) THEN <<"TypeError">>
    ELSE IF fn.prim \in {"divmod", "rdivmod"}
    THEN <<Method(IF fn.prim = "divmod" THEN "floordiv" ELSE "rfloordiv", x, y),
           Method(IF fn.prim = "divmod" THEN "mod" ELSE "rmod", x, y)>>
    ELSE <<Method(fn.prim, x, y)>>

IdentityPreserved ==
    /\ ret \in {None, "self"}
    /\ pc = Returned => ret = "self"

\* A returned call whose computed result differs from what the receiver held.
IdentityPreservedWitness ==
    pc = Returned /\ ret = "self" /\ result # self0.mgr /\ aligned # result

AliasPairs ==
    {<<"multiply", "mul">>, <<"subtract", "sub">>, <<"divide", "truediv">>,
     <<"div", "truediv">>, <<"rdiv", "rtruediv">>}

\* C3: on both container classes every alias is bound to the very callable of
\* its canonical name and, the classes defined, gives the same result on
\* every (receiver, other).
AliasesExact ==
    \A cls \in Supported : FlexAttached(cls) =>
        \A p \in AliasPairs :
            /\ N(p[1]) \in DOMAIN attrs[cls]
            /\ N(p[2]) \in DOMAIN attrs[cls]
            /\ attrs[cls][N(p[1])] = attrs[cls][N(p[2])]
            /\ attrs[cls][N(p[1])].prim = p[2]
            /\ (pc = 0 /\ Defined) =>
                  \A x \in Containers, y \in Operands :
                     FlexApply(attrs[cls][N(p[1])], x, y) = FlexApply(attrs[cls][N(p[2])], x, y)

AliasesExactWitness ==
    /\ \A cls \in Supported : FlexAttached(cls) /\ N("divide") \in DOMAIN attrs[cls]
    /\ \E x \in Containers, y \in Containers :
          FlexApply(attrs["Series"][N("divide")], x, y)
             # <<Method("floordiv", x, y)>>

ArithPairs ==
    {<<"add", "radd">>, <<"sub", "rsub">>, <<"mul", "rmul">>,
     <<"truediv", "rtruediv">>, <<"floordiv", "rfloordiv">>, <<"mod", "rmod">>,
     <<"pow", "rpow">>}

ComparisonNames == {"eq", "ne", "lt", "gt", "le", "ge"}
ReflectedComparisonNames == {"req", "rne", "rlt", "rgt", "rle", "rge"}

ArithKeys == {N(p[1]) : p \in ArithPairs} \cup {N(p[2]) : p \in ArithPairs}
ComparisonKeys == {N(o) : o \in ComparisonNames}
ReflectedComparisonKeys == {N(o) : o \in ReflectedComparisonNames}

TableComplete(cls, table, arith_method, comp_method) ==
    /\ \A k \in ArithKeys :
          /\ k \in DOMAIN table
          /\ table[k].factory = arith_method /\ table[k].prim = k[1] /\ table[k].name = k
    /\ \A k \in ComparisonKeys :
          /\ k \in DOMAIN table
          /\ table[k].factory = comp_method /\ table[k].prim = k[1] /\ table[k].name = k
    /\ \A k \in ReflectedComparisonKeys : k \notin DOMAIN table

\* C4: for both container classes the table of _create_methods, and the
\* class it is pinned to, hold every arithmetic operation and its reflected
\* form, built by the arithmetic wrapper on the canonical and the reflected
\* primitive, the six comparisons built by the comparison wrapper, and no
\* reflected comparison.
CreateMethodsComplete ==
    \A cls \in Supported : FlexAttached(cls) =>
        /\ TableComplete(cls, created[cls], wrappers[cls][1], wrappers[cls][2])
        /\ TableComplete(cls, attrs[cls], wrappers[cls][1], wrappers[cls][2])
        /\ wrappers[cls] \in {<<"flex_method_SERIES", "flex_method_SERIES">>,
                             <<"flex_arith_method_FRAME", "flex_comp_method_FRAME">>}

CreateMethodsCompleteWitness ==
    /\ \A cls \in Supported : FlexAttached(cls) /\ N("rsub") \in DOMAIN attrs[cls]
    /\ \E x \in Containers, y \in Containers :
          FlexApply(attrs["DataFrame"][N("rsub")], x, y) # FlexApply(attrs["DataFrame"][N("sub")], x, y)

\* C5: divmod and rdivmod are in the table built for a class, and among the
\* attributes pinned to it, exactly when the class is a Series; there both
\* are built by the arithmetic wrapper.
DivmodOnlySeries ==
    \A cls \in Classes : "flex" \in done[cls] =>
        \A k \in {N("divmod"), N("rdivmod")} :
            /\ k \in DOMAIN attrs[cls] <=> IsABCSeries(cls)
            /\ k \in DOMAIN created[cls] <=> IsABCSeries(cls)
            /\ k \in DOMAIN created[cls] =>
                  /\ created[cls][k] = Callable(wrappers[cls][1], k[1], k)
                  /\ attrs[cls][k] = created[cls][k]

DivmodOnlySeriesWitness ==
    /\ \A cls \in Classes : "flex" \in done[cls]
    /\ N("divmod") \in DOMAIN attrs["Series"]
    /\ N("floordiv") \in DOMAIN attrs["DataFrame"]
    /\ N("divmod") \notin DOMAIN attrs["DataFrame"]

InplaceNames(cls) ==
    {k \in DOMAIN attrs[cls] : attrs[cls][k].factory = "_wrap_inplace_method"}

InplaceKeys == {Dunder(<<"i", o>>) : o \in SpecialOps}
NoInplaceKeys == {Dunder(<<"i", o>>) : o \in ComparisonNames \cup {"divmod"}}

\* C6: once add_special_arithmetic_methods has run for a class, the class
\* has the in-place method __i<X>__ for each of the ten operations X, each
\* wrapping the non-mutating __<X>__ of the class, and none for a comparison
\* or for divmod; when the definition of the classes ends these ten are all
\* the in-place methods it has.
InplaceTableExact ==
    \A cls \in Classes :
        IF "special" \in done[cls]
        THEN /\ pc = 0 => InplaceNames(cls) = InplaceKeys
             /\ \A k \in InplaceKeys :
                   /\ k \in DOMAIN attrs[cls]
                   /\ attrs[cls][k].factory = "_wrap_inplace_method"
                   /\ attrs[cls][k].prim = attrs[cls][<<"_", "_", k[4], "_", "_">>].prim
                   /\ attrs[cls][k].prim = k[4]
                   /\ attrs[cls][k].name = k
             /\ \A k \in NoInplaceKeys : k \notin DOMAIN attrs[cls]
        ELSE \A k \in InplaceKeys : k \notin DOMAIN attrs[cls]

\* An in-place subtraction was called and returned what the subtraction gives.
InplaceTableExactWitness ==
    /\ \A cls \in Classes : "special" \in done[cls]
    /\ pc = Returned
    /\ f = attrs["Series"][Dunder(<<"i", "sub">>)]
    /\ self.mgr = Method("sub", self0.mgr, other)
    /\ self.mgr # Method("add", self0.mgr, other)

FlexNames(cls) ==
    {k \in DOMAIN attrs[cls] : attrs[cls][k].factory \notin {"OpsMixin", "_wrap_inplace_method"}}

FailedCallLeavesReceiver ==
    raised # "none" => self = self0 /\ ret = None

\* C9 amended: a call that ended in a fault has committed nothing and
\* returned nothing: storage and labels are as before the call.  The fault
\* is the one of the step that failed.  After a fault of the non-mutating
\* operation the cacher linkage is as before the call; after a fault of the
\* realignment it has been cleared.
FailedCallAmended ==
    raised # "none" =>
        /\ self.mgr = self0.mgr
        /\ ret = None
        /\ raised \in {"TypeError", "ValueError"}
        /\ raised = "TypeError" <=> Raises(self0.mgr, other)
        /\ raised = "TypeError" => self.cacher = self0.cacher
        /\ raised = "ValueError" =>
              /\ ReindexRaises(Method(OpOf(f), self0.mgr, other), self0.mgr)
              /\ self.cacher = FALSE

\* The realignment failed on a receiver that was a cached view.
FailedCallAmendedWitness ==
    raised = "ValueError" /\ self0.cacher /\ ~self.cacher /\ self.mgr = self0.mgr

StepOrder == <<"method", "reset_cacher", "reindex_like", "update_inplace", "return">>

\* C10: the statements of a call are executed in the order: non-mutating
\* operation, reset of the cacher, realignment, commit, return.  The
\* operation finds the receiver unmodified; the cacher is cleared before the
\* commit; the realignment finds the labels the receiver had before the call;
\* the commit happens at most once, is the last change of the receiver, and
\* makes no is_copy check.
StepOrderHolds ==
    /\ Len(log) <= Len(StepOrder)
    /\ \A i \in 1..Len(log) : log[i].step = StepOrder[i]
    /\ \A i \in 1..Len(log) :
          /\ log[i].step = "method" =>
                log[i].mgr = self0.mgr /\ log[i].cacher = self0.cacher
          /\ log[i].step = "reindex_like" =>
                log[i].mgr = self0.mgr /\ result = Method(f.prim, self0.mgr, other)
          /\ log[i].step = "update_inplace" =>
                log[i].mgr = self0.mgr /\ log[i].cacher = FALSE
          /\ log[i].step = "return" => self.mgr = log[i].mgr /\ log[i].mgr = aligned
    /\ (\A i \in 1..Len(log) : log[i].step # "update_inplace") => self.mgr = self0.mgr
    /\ ~checked

\* A returned call on a cached view whose commit changed the receiver.
StepOrderWitness ==
    /\ pc = Returned
    /\ Len(log) = 5
    /\ self0.cacher
    /\ ~self.cacher
    /\ self.mgr # self0.mgr

====
